---- MODULE Spec2Model ----
(***************************************************************************)
(* dirdiff: snapshots of a directory tree are appended to .dirdiff.csv    *)
(* (record); compare_local loads the CSV into an in-memory SQLite          *)
(* database and classifies the records of the two newest revisions with a  *)
(* sequence of SQL statements over working_entries / touched_entries.      *)
(*                                                                         *)
(* The SQL statements are modelled relationally: a table is a set of rows  *)
(* (the id column is the primary key), a join is the set of row pairs that *)
(* satisfy the ON condition, and a Vec<Doc> result is a bag of Docs.       *)
(* The phases are the functions of db.rs, called in the order of           *)
(* compare_local; added_files and missing_files, which only read the       *)
(* tables, follow remove_moved as the documented pipeline has them.        *)
(***************************************************************************)
EXTENDS Integers, Sequences, FiniteSets, TLC

\* bound: number of rows the CSV may hold
MaxRecords == 3

\* Duration::as_secs drops the milliseconds of a SystemTime
MillisPerSec == 1000

Hashes == {"h1", "h3"}
Names  == {"a.txt", "b.txt", "c.txt"}
Paths  == {"/d1", "/d2"}
\* capture times in milliseconds since the epoch; 2000 and 2500 lie in the
\* same second
Stamps == {1000, 2000, 2500, 3000}

VARIABLES
    csv,              \* rows of .dirdiff.csv: hash,name,path,mod_date_millis
    entries,          \* Vec<Doc> returned by load_csv_entries
    dir_entries,      \* table dir_entries
    revisions,        \* Vec returned by revision_millis / list_revisions
    latest_revision,  \* revisions[0]
    prior_revision,   \* revisions[1]
    working_entries,  \* table working_entries
    touched_entries,  \* table touched_entries
    renamed,          \* Vec<Doc> returned by renamed_files (a bag)
    moved,            \* Vec<MovedDoc> returned by moved_files (a bag)
    added,            \* Vec<Doc> returned by added_files (a bag)
    missing,          \* Vec<Doc> returned by missing_files (a bag)
    matched,          \* per phase, the (previous id, latest id) pairs its join produced
    pc                \* position of the process

vars == <<csv, entries, dir_entries, revisions, latest_revision, prior_revision,
          working_entries, touched_entries, renamed, moved, added, missing,
          matched, pc>>

----------------------------------------------------------------------------
\* helpers

Range(s) == {s[i] : i \in 1..Len(s)}

Ids(T) == {r.id : r \in T}

\* a Vec of results whose order is the (unspecified) row order of the query:
\* given the set of <<result row, value built from it>>, the bag of the values
Bag(tagged) ==
    [d \in {t[2] : t \in tagged} |-> Cardinality({t \in tagged : t[2] = d})]

EmptyBag == Bag({})

BagSize(b) ==
    LET RECURSIVE Sum(_)
        Sum(S) == IF S = {} THEN 0
                  ELSE LET d == CHOOSE x \in S : TRUE IN b[d] + Sum(S \ {d})
    IN Sum(DOMAIN b)

\* the rows of one capture in the order the directory walk yields them
RECURSIVE SeqOf(_)
SeqOf(S) == IF S = {} THEN <<>>
            ELSE LET r == CHOOSE x \in S : TRUE IN <<r>> \o SeqOf(S \ {r})

\* SQL NULL in an INTEGER column / the all-NULL right side of a LEFT JOIN
NullRow == [id |-> -1, hash |-> "", name |-> "", path |-> "", mod_date |-> -1]
IsNull(v) == v = -1

\* INSERT INTO t (id, ...) SELECT w1.id, ... : the statement fails with a
\* UNIQUE constraint error when two selected rows carry the same id or a
\* selected id is already in the table
InsertFails(T, rows) ==
    \/ \E p, q \in rows : p # q /\ p[1].id = q[1].id
    \/ \E p \in rows : p[1].id \in Ids(T)

\* the names a Doc carries: struct Doc has the one field name
NamesCarried(d) == {d.name}

\* Doc built by the row closures: mod_date is UNIX_EPOCH + from_millis(column)
DocOf(r) == [hash |-> r.hash, name |-> r.name, path |-> r.path, mod_date |-> r.mod_date]

----------------------------------------------------------------------------
\* the ON conditions of the joins

UnchangedOn(w1, w2) ==
    /\ w1.mod_date # w2.mod_date
    /\ w1.hash = w2.hash
    /\ w1.name = w2.name
    /\ w1.path = w2.path

RenamedOn(w1, w2) ==
    /\ w1.mod_date # w2.mod_date
    /\ w1.hash = w2.hash
    /\ w1.name # w2.name
    /\ w1.path = w2.path

MovedOn(w1, w2) ==
    /\ w1.mod_date # w2.mod_date
    /\ w1.hash = w2.hash
    /\ w1.path # w2.path
    /\ w1.name = w2.name

----------------------------------------------------------------------------
\* record: gen_dir_struct stamps every file of one walk with the capture time
\* and the writer appends one line per file

record ==
    /\ pc = "idle"
    /\ \E t \in Stamps, files \in SUBSET (Names \X Paths) :
         /\ files # {}
         /\ \A r \in Range(csv) : r.ts < t
         /\ Len(csv) + Cardinality(files) <= MaxRecords
         /\ \E h \in [files -> Hashes] :
              csv' = csv \o SeqOf({[hash |-> h[f], name |-> f[1], path |-> f[2], ts |-> t]
                                     : f \in files})
    /\ UNCHANGED <<entries, dir_entries, revisions, latest_revision, prior_revision,
                   working_entries, touched_entries, renamed, moved, added, missing,
                   matched, pc>>

\* load_csv_entries: one Doc per line, mod_date = UNIX_EPOCH + from_millis(field 3)
load_csv_entries ==
    /\ pc = "idle"
    /\ entries' = [i \in 1..Len(csv) |->
                     [hash |-> csv[i].hash, name |-> csv[i].name,
                      path |-> csv[i].path, mod_date |-> csv[i].ts]]
    /\ pc' = "entries"
    /\ UNCHANGED <<csv, dir_entries, revisions, latest_revision, prior_revision,
                   working_entries, touched_entries, renamed, moved, added, missing,
                   matched>>

\* duration_since(UNIX_EPOCH).as_secs()
as_secs(millis) == millis \div MillisPerSec

\* load_to_local_sqlite: rows get rowids 1, 2, ... and mod_date in whole seconds
load_to_local_sqlite ==
    /\ pc = "entries"
    /\ dir_entries' = {[id |-> i, hash |-> entries[i].hash, name |-> entries[i].name,
                        path |-> entries[i].path,
                        mod_date |-> as_secs(entries[i].mod_date)]
                         : i \in 1..Len(entries)}
    /\ pc' = "sqlite"
    /\ UNCHANGED <<csv, entries, revisions, latest_revision, prior_revision,
                   working_entries, touched_entries, renamed, moved, added, missing,
                   matched>>

\* slip: ORDER BY mod_date ASC
RECURSIVE SortDesc_Ascending(_)
SortDesc_Ascending(S) ==
    IF S = {} THEN <<>>
    ELSE LET m == CHOOSE x \in S : \A y \in S : x <= y
         IN <<m>> \o SortDesc_Ascending(S \ {m})

\* SELECT DISTINCT mod_date FROM dir_entries ORDER BY mod_date DESC
RECURSIVE SortDesc(_)
SortDesc(S) == IF S = {} THEN <<>>
               ELSE LET m == CHOOSE x \in S : \A y \in S : y <= x
                    IN <<m>> \o SortDesc(S \ {m})

revision_millis(D) == SortDesc({r.mod_date : r \in D})

\* slip: a single revision is compared against itself instead of failing
compare_local_SelfFallback ==
    /\ pc = "sqlite"
    /\ revisions' = revision_millis(dir_entries)
    /\ IF Len(revisions') < 1
       THEN /\ pc' = "panic"
            /\ UNCHANGED <<latest_revision, prior_revision>>
       ELSE /\ latest_revision' = revisions'[1]
            /\ prior_revision' = revisions'[IF Len(revisions') < 2 THEN 1 ELSE 2]
            /\ pc' = "setup"
    /\ UNCHANGED <<csv, entries, dir_entries, working_entries, touched_entries,
                   renamed, moved, added, missing, matched>>

\* compare_local, up to the choice of the two revisions: revisions[0] and
\* revisions[1]; indexing past the end of the Vec panics.  list_revisions
\* wraps each value in NaiveDateTime::from_timestamp(e, 0), whose timestamp()
\* is e again, so the revisions are kept as the integers the statements bind.
compare_local ==
    /\ pc = "sqlite"
    /\ revisions' = revision_millis(dir_entries)
    /\ IF Len(revisions') < 2
       THEN /\ pc' = "panic"
            /\ UNCHANGED <<latest_revision, prior_revision>>
       ELSE /\ latest_revision' = revisions'[1]
            /\ prior_revision' = revisions'[2]
            /\ pc' = "setup"
    /\ UNCHANGED <<csv, entries, dir_entries, working_entries, touched_entries,
                   renamed, moved, added, missing, matched>>

\* setup_working_tables: CREATE TABLE working_entries, touched_entries
setup_working_tables ==
    /\ pc = "setup"
    /\ working_entries' = {}
    /\ touched_entries' = {}
    /\ pc' = "load"
    /\ UNCHANGED <<csv, entries, dir_entries, revisions, latest_revision,
                   prior_revision, renamed, moved, added, missing, matched>>

\* slip: the SELECT loses its WHERE clause
load_working_table_NoWhere ==
    /\ pc = "load"
    /\ working_entries' = working_entries \cup dir_entries
    /\ pc' = "unchanged"
    /\ UNCHANGED <<csv, entries, dir_entries, revisions, latest_revision,
                   prior_revision, touched_entries, renamed, moved, added, missing,
                   matched>>

\* load_working_table: INSERT ... SELECT ... FROM dir_entries WHERE mod_date IN (?1, ?2)
load_working_table ==
    /\ pc = "load"
    /\ working_entries' = working_entries \cup
           {r \in dir_entries : r.mod_date \in {latest_revision, prior_revision}}
    /\ pc' = "unchanged"
    /\ UNCHANGED <<csv, entries, dir_entries, revisions, latest_revision,
                   prior_revision, touched_entries, renamed, moved, added, missing,
                   matched>>


----------------------------------------------------------------------------
\* the classification phases

\* ... FROM working_entries w1 INNER JOIN working_entries w2 ON <renamed>
\*     WHERE w1.mod_date = d1 AND w2.mod_date = d2
RenamedPairs(W, d1, d2) ==
    {p \in W \X W : RenamedOn(p[1], p[2]) /\ p[1].mod_date = d1 /\ p[2].mod_date = d2}

\* ... FROM working_entries w1 INNER JOIN working_entries w2 ON <moved>
\*     WHERE w1.mod_date = d1 AND w2.mod_date = d2
MovedPairs(W, d1, d2) ==
    {p \in W \X W : MovedOn(p[1], p[2]) /\ p[1].mod_date = d1 /\ p[2].mod_date = d2}

\* the first statement of remove_unchanged_from_working_table selects
\* w1 ... WHERE w1.mod_date = ?1 (previous); w2 is any row of the table
UnchangedRows(W, previous) ==
    {p \in W \X W : UnchangedOn(p[1], p[2]) /\ p[1].mod_date = previous}

\* remove_unchanged_from_working_table: INSERT the previous rows that have an
\* identical row of the other revision INTO touched_entries (expect "Boom 1"),
\* then DELETE those same previous rows FROM working_entries
remove_unchanged_from_working_table ==
    /\ pc = "unchanged"
    /\ LET rows == UnchangedRows(working_entries, prior_revision) IN
       IF InsertFails(touched_entries, rows)
       THEN /\ pc' = "panic"
            /\ UNCHANGED <<working_entries, touched_entries, matched>>
       ELSE /\ touched_entries' = touched_entries \cup {p[1] : p \in rows}
            /\ working_entries' =
                 {w \in working_entries :
                    w.id \notin {p[1].id : p \in UnchangedRows(working_entries, prior_revision)}}
            /\ matched' = [matched EXCEPT !.unchanged = {<<p[1].id, p[2].id>> : p \in rows}]
            /\ pc' = "renamed"
    /\ UNCHANGED <<csv, entries, dir_entries, revisions, latest_revision,
                   prior_revision, renamed, moved, added, missing>>

\* renamed_files: SELECT * ... WHERE w1.mod_date = latest and w2.mod_date = previous;
\* columns 1..4 of a result row are w1.hash, w1.name, w1.path, w1.mod_date
\* slip: the Doc is built from the w2 (previous) columns
RenamedDoc_FromPrevious(p) == DocOf(p[2])

RenamedDoc(p) == DocOf(p[1])

renamed_files ==
    /\ pc = "renamed"
    /\ LET rows == RenamedPairs(working_entries, latest_revision, prior_revision) IN
         /\ renamed' = Bag({<<p, RenamedDoc(p)>> : p \in rows})
         /\ matched' = [matched EXCEPT !.renamed = {<<p[2].id, p[1].id>> : p \in rows}]
    /\ pc' = "rm_renamed"
    /\ UNCHANGED <<csv, entries, dir_entries, revisions, latest_revision,
                   prior_revision, working_entries, touched_entries, moved, added,
                   missing>>

\* remove_renamed: INSERT the previous rows of the renamed pairs INTO
\* touched_entries (expect), DELETE the w1 (latest) rows of the pairs, then
\* DELETE the w2 (previous) rows of the pairs that the table still yields
remove_renamed ==
    /\ pc = "rm_renamed"
    /\ LET rows == RenamedPairs(working_entries, prior_revision, latest_revision) IN
       IF InsertFails(touched_entries, rows)
       THEN /\ pc' = "panic"
            /\ UNCHANGED <<working_entries, touched_entries>>
       ELSE LET W1 == {w \in working_entries :
                         w.id \notin {p[1].id : p \in RenamedPairs(working_entries,
                                                   latest_revision, prior_revision)}}
                W2 == {w \in W1 :
                         w.id \notin {p[2].id : p \in RenamedPairs(W1,
                                                   latest_revision, prior_revision)}}
            IN /\ touched_entries' = touched_entries \cup {p[1] : p \in rows}
               /\ working_entries' = W2
               /\ pc' = "moved"
    /\ UNCHANGED <<csv, entries, dir_entries, revisions, latest_revision,
                   prior_revision, renamed, moved, added, missing, matched>>

\* moved_files: SELECT w1.hash, w1.name, w1.path, w1.mod_date, w2.path
\*              ... WHERE w1.mod_date = latest AND w2.mod_date = previous
MovedDoc(p) == [doc |-> DocOf(p[1]), dest_path |-> p[2].path]

moved_files ==
    /\ pc = "moved"
    /\ LET rows == MovedPairs(working_entries, latest_revision, prior_revision) IN
         /\ moved' = Bag({<<p, MovedDoc(p)>> : p \in rows})
         /\ matched' = [matched EXCEPT !.moved = {<<p[2].id, p[1].id>> : p \in rows}]
    /\ pc' = "rm_moved"
    /\ UNCHANGED <<csv, entries, dir_entries, revisions, latest_revision,
                   prior_revision, working_entries, touched_entries, renamed, added,
                   missing>>

\* remove_moved: DELETE the w1 (latest) rows of the moved pairs, then INSERT
\* INTO touched_entries the previous rows of the pairs the table still yields;
\* the caller drops the SqlResult
remove_moved ==
    /\ pc = "rm_moved"
    /\ LET W1 == {w \in working_entries :
                    w.id \notin {p[1].id : p \in MovedPairs(working_entries,
                                              latest_revision, prior_revision)}}
           rows == MovedPairs(W1, prior_revision, latest_revision)
       IN /\ working_entries' = W1
          /\ touched_entries' = IF InsertFails(touched_entries, rows)
                                THEN touched_entries
                                ELSE touched_entries \cup {p[1] : p \in rows}
    /\ pc' = "added"
    /\ UNCHANGED <<csv, entries, dir_entries, revisions, latest_revision,
                   prior_revision, renamed, moved, added, missing, matched>>

\* added_files: working_entries w1 LEFT JOIN touched_entries w2 ON ...
\*              WHERE w1.mod_date = latest AND w2.mod_date IS NULL
AddedOn(w1, w2) ==
    /\ w1.mod_date # w2.mod_date
    /\ w1.hash = w2.hash
    /\ w1.path = w2.path
    /\ w1.name = w2.name

\* working_entries w1 LEFT JOIN touched_entries w2 ON ...: the matching pairs,
\* and every w1 without a match paired with an all-NULL w2
AddedJoin(W, T) ==
    {p \in W \X T : AddedOn(p[1], p[2])} \cup
    {<<w1, NullRow>> : w1 \in {w \in W : \A w2 \in T : ~AddedOn(w, w2)}}

\* slip: the WHERE clause loses "AND w2.mod_date IS NULL"
AddedRows_NoNullTest(W, T, latest) ==
    {p \in AddedJoin(W, T) : p[1].mod_date = latest}

AddedRows(W, T, latest) ==
    {p \in AddedJoin(W, T) : p[1].mod_date = latest /\ IsNull(p[2].mod_date)}

AddedDoc(p) == DocOf(p[1])

added_files ==
    /\ pc = "added"
    /\ added' = Bag({<<p, AddedDoc(p)>> :
                       p \in AddedRows(working_entries, touched_entries, latest_revision)})
    /\ pc' = "missing"
    /\ UNCHANGED <<csv, entries, dir_entries, revisions, latest_revision,
                   prior_revision, working_entries, touched_entries, renamed, moved,
                   missing, matched>>

\* missing_files: SELECT * FROM touched_entries EXCEPT
\*   SELECT w1.* FROM working_entries w1 LEFT JOIN working_entries w2 ON ...
\*   WHERE w1.mod_date IS NULL AND w2.id = ?1      (?1 = previous.timestamp())
MissingOn(w1, w2) ==
    /\ w1.mod_date # w2.mod_date
    /\ w1.hash = w2.hash
    /\ w1.path = w2.path
    /\ w1.name = w2.name

\* working_entries w1 LEFT JOIN working_entries w2 ON ...
MissingJoin(W) ==
    {p \in W \X W : MissingOn(p[1], p[2])} \cup
    {<<w1, NullRow>> : w1 \in {w \in W : \A w2 \in W : ~MissingOn(w, w2)}}

MissingRows(W, T, previous) ==
    T \ {p[1] : p \in {q \in MissingJoin(W) :
                         IsNull(q[1].mod_date) /\ q[2].id = previous}}

missing_files ==
    /\ pc = "missing"
    /\ missing' = Bag({<<r, DocOf(r)>> :
                         r \in MissingRows(working_entries, touched_entries, prior_revision)})
    /\ pc' = "done"
    /\ UNCHANGED <<csv, entries, dir_entries, revisions, latest_revision,
                   prior_revision, working_entries, touched_entries, renamed, moved,
                   added, matched>>

----------------------------------------------------------------------------

Init ==
    /\ csv = <<>>
    /\ entries = <<>>
    /\ dir_entries = {}
    /\ revisions = <<>>
    /\ latest_revision = 0
    /\ prior_revision = 0
    /\ working_entries = {}
    /\ touched_entries = {}
    /\ renamed = EmptyBag
    /\ moved = EmptyBag
    /\ added = EmptyBag
    /\ missing = EmptyBag
    /\ matched = [unchanged |-> {}, renamed |-> {}, moved |-> {}]
    /\ pc = "idle"

Next ==
    \/ record
    \/ load_csv_entries
    \/ load_to_local_sqlite
    \/ compare_local
    \/ setup_working_tables
    \/ load_working_table
    \/ remove_unchanged_from_working_table
    \/ renamed_files
    \/ remove_renamed
    \/ moved_files
    \/ remove_moved
    \/ added_files
    \/ missing_files

Spec == Init /\ [][Next]_vars

TypeOK == pc \in {"idle", "entries", "sqlite", "setup", "load", "unchanged", "renamed",
                  "rm_renamed", "moved", "rm_moved", "added", "missing", "done", "panic"}


----------------------------------------------------------------------------
\* vocabulary of the properties

\* the records of the two compared revisions
Seeded == {r \in dir_entries : r.mod_date \in {latest_revision, prior_revision}}
SeededPrev == {r \in Seeded : r.mod_date = prior_revision}
SeededLatest == {r \in Seeded : r.mod_date = latest_revision}

Triple(r) == <<r.hash, r.name, r.path>>

\* ids of the records that are a member of a pair of the given phase
PairIds(pairs) == {p[1] : p \in pairs} \cup {p[2] : p \in pairs}

\* a record is reported in an output Vec<Doc> when the Vec holds its Doc
Reported(r, bag) == DocOf(r) \in DOMAIN bag

Row(h, n, p, t) == [hash |-> h, name |-> n, path |-> p, ts |-> t]

\* number of the five outcomes a seeded record is accounted for in
Outcomes(r) ==
    {o \in {"unchanged", "renamed", "moved", "added", "missing"} :
        \/ o = "unchanged" /\ r.id \in PairIds(matched.unchanged)
        \/ o = "renamed" /\ r.id \in PairIds(matched.renamed)
        \/ o = "moved" /\ r.id \in PairIds(matched.moved)
        \/ o = "added" /\ Reported(r, added)
        \/ o = "missing" /\ Reported(r, missing)}

\* C1 (partition completeness): after the full pipeline every seeded record
\* is accounted for in exactly one of unchanged, renamed, moved, added, missing.
C1_PartitionComplete ==
    pc = "done" => \A r \in Seeded : Cardinality(Outcomes(r)) = 1

\* C2 (no-op comparison): when the latest revision holds exactly the triples
\* of the previous revision, the pipeline reports no renamed, moved, added or
\* missing entry.
C2_NoOpComparison ==
    (/\ pc = "done"
     /\ {Triple(r) : r \in SeededPrev} = {Triple(r) : r \in SeededLatest}
     /\ Cardinality(SeededPrev) = Cardinality(SeededLatest))
    => /\ DOMAIN renamed = {}
       /\ DOMAIN moved = {}
       /\ DOMAIN added = {}
       /\ DOMAIN missing = {}

\* C3 (missing rule): missing_files returns exactly the previous-revision
\* records that are in no pair of the Unchanged, Renamed and Moved phases.
C3_MissingRule ==
    pc = "done" =>
        missing = Bag({<<r, DocOf(r)>> :
                         r \in {q \in SeededPrev :
                                  q.id \notin {p[1] : p \in matched.unchanged
                                                 \cup matched.renamed \cup matched.moved}}})

\* C4 (added rule): added_files returns exactly the latest-revision records
\* that are in no pair of the Unchanged, Renamed and Moved phases, each once;
\* previous {(h1,a.txt,/d1)} and latest {(h1,a.txt,/d1),(h3,c.txt,/d1)} give
\* no renamed, no moved and the one added entry c.txt.
ScenarioD ==
    Range(csv) = {Row("h1", "a.txt", "/d1", 1000), Row("h1", "a.txt", "/d1", 2000),
                  Row("h3", "c.txt", "/d1", 2000)}

C4_AddedRule ==
    pc \in {"missing", "done"} =>
        /\ added = Bag({<<r, DocOf(r)>> :
                          r \in {q \in SeededLatest :
                                   q.id \notin {p[2] : p \in matched.unchanged
                                                  \cup matched.renamed \cup matched.moved}}})
        /\ ScenarioD =>
             /\ DOMAIN renamed = {}
             /\ DOMAIN moved = {}
             /\ DOMAIN added = {[hash |-> "h3", name |-> "c.txt", path |-> "/d1", mod_date |-> 2]}
             /\ BagSize(added) = 1

\* scenario D after the whole pipeline: c.txt is added next to the unchanged a.txt
C4_Witness ==
    /\ pc = "done"
    /\ ScenarioD
    /\ BagSize(added) = 1
    /\ matched.unchanged # {}

\* C5 (moved rule): the Moved phase emits, for exactly the pairs (a previous,
\* b latest) of the working set with equal hash, equal name and different
\* path, an entry whose source path is a.path and whose destination path
\* (dest_path) is b.path.
C5_MovedRule ==
    pc = "rm_moved" =>
        {[hash |-> m.doc.hash, name |-> m.doc.name,
          oldPath |-> m.doc.path, newPath |-> m.dest_path] : m \in DOMAIN moved}
        = {[hash |-> p[1].hash, name |-> p[1].name,
            oldPath |-> p[1].path, newPath |-> p[2].path] :
             p \in {q \in working_entries \X working_entries :
                      /\ q[1].mod_date = prior_revision
                      /\ q[2].mod_date = latest_revision
                      /\ q[1].hash = q[2].hash
                      /\ q[1].name = q[2].name
                      /\ q[1].path # q[2].path}}


C7_PhasePriority ==
    /\ PairIds(matched.unchanged) \cap (PairIds(matched.renamed) \cup PairIds(matched.moved)) = {}
    /\ PairIds(matched.renamed) \cap PairIds(matched.moved) = {}
    /\ pc = "done" =>
         \A r \in Seeded :
            r.id \in PairIds(matched.unchanged \cup matched.renamed \cup matched.moved)
            => ~Reported(r, added) /\ ~Reported(r, missing)

\* C8 (no failure on well-formed input): when (name, path) is unique within
\* each compared revision, no phase of the classifier panics (the only panic
\* is the missing second revision in compare_local).
C8_NeverFails ==
    (\A r, q \in Seeded :
        (r.mod_date = q.mod_date /\ r.name = q.name /\ r.path = q.path) => r = q)
    => (pc = "panic" => Len(revisions) < 2)

\* C9 (consistent precision): two rows of dir_entries have the same mod_date
\* exactly when their CSV lines have the same timestamp, and revision_millis
\* returns one revision per persisted snapshot.
C9_ConsistentPrecision ==
    /\ pc \notin {"idle", "entries"} =>
         \A r, q \in dir_entries :
            (r.mod_date = q.mod_date) <=> (csv[r.id].ts = csv[q.id].ts)
    /\ pc \notin {"idle", "entries", "sqlite"} =>
         Len(revisions) = Cardinality({csv[i].ts : i \in 1..Len(csv)})

\* C10 (tie-break under duplicate hashes): within the Renamed phase and within
\* the Moved phase each record takes part in at most one emitted pair.
C10_AtMostOnePair ==
    \A pairs \in {matched.renamed, matched.moved} :
        \A p, q \in pairs : p # q => (p[1] # q[1] /\ p[2] # q[2])


\* C11 (revision index): revision_millis returns every distinct mod_date of
\* dir_entries exactly once in strictly descending order; the comparison takes
\* element 0 as latest and element 1 as previous, so latest > previous and no
\* mod_date of the store lies strictly between them.
C11_RevisionIndex ==
    pc \notin {"idle", "entries", "sqlite"} =>
        /\ Range(revisions) = {r.mod_date : r \in dir_entries}
        /\ \A i, j \in 1..Len(revisions) : i < j => revisions[i] > revisions[j]
        /\ Len(revisions) >= 2 =>
             /\ latest_revision = revisions[1]
             /\ prior_revision = revisions[2]
             /\ latest_revision > prior_revision
             /\ \A r \in dir_entries :
                  /\ r.mod_date <= latest_revision
                  /\ ~(prior_revision < r.mod_date /\ r.mod_date < latest_revision)

\* three revisions in the store: the oldest one is neither latest nor previous
C11_Witness ==
    /\ pc = "setup"
    /\ Len(revisions) = 3
    /\ latest_revision = 3
    /\ prior_revision = 2
    /\ \E r \in dir_entries : r.mod_date = 1

\* C12 (precondition failure): with fewer than two distinct mod_dates in the
\* store the compare operation aborts before the working set is seeded and
\* before any phase runs, and latest = previous is never compared.
C12_PreconditionFailure ==
    /\ (/\ pc \notin {"idle", "entries", "sqlite"}
        /\ Cardinality({r.mod_date : r \in dir_entries}) < 2)
       => /\ pc = "panic"
          /\ working_entries = {}
          /\ touched_entries = {}
          /\ matched = [unchanged |-> {}, renamed |-> {}, moved |-> {}]
          /\ DOMAIN renamed = {} /\ DOMAIN moved = {}
          /\ DOMAIN added = {} /\ DOMAIN missing = {}
    /\ pc \in {"setup", "load", "unchanged", "renamed", "rm_renamed", "moved",
               "rm_moved", "added", "missing", "done"}
       => latest_revision # prior_revision

\* a store with a single snapshot: compare_local has aborted
C12_Witness ==
    /\ pc = "panic"
    /\ Len(revisions) = 1
    /\ dir_entries # {}
    /\ working_entries = {}


\* C14 (matched pairs leave the working set): after remove_unchanged_from_working_table,
\* remove_renamed and remove_moved complete, working_entries holds neither the
\* previous nor the latest record of any pair that phase matched.
C14_MatchedPairsLeave ==
    /\ pc = "renamed" => PairIds(matched.unchanged) \cap Ids(working_entries) = {}
    /\ pc = "moved" => PairIds(matched.renamed) \cap Ids(working_entries) = {}
    /\ pc = "added" => PairIds(matched.moved) \cap Ids(working_entries) = {}

\* the positions of the comparison after load_working_table has run
AfterLoad == {"unchanged", "renamed", "rm_renamed", "moved", "rm_moved", "added",
              "missing", "done"}

\* the seeded rows bound the working set in every state after the load
WorkingSetSeeded ==
    /\ pc = "unchanged" => working_entries = Seeded
    /\ (pc \in AfterLoad \/ (pc = "panic" /\ Len(revisions) >= 2))
       => working_entries \subseteq Seeded

\* no step after the load adds a row to the working set
WorkingSetShrinks ==
    pc \in AfterLoad =>
        (/\ working_entries' \subseteq working_entries
         /\ Cardinality(working_entries') <= Cardinality(working_entries))

\* C15 (working-set bounds): right after load_working_table the working set
\* is exactly the set of dir_entries rows of the latest and the previous
\* revision, later it is a subset of that set, and no step after the load
\* adds a row to it (so its size never increases).
C15_WorkingSetBounds == []WorkingSetSeeded /\ [][WorkingSetShrinks]_vars

\* three revisions, the oldest one is not seeded, and the phases have removed
\* some but not all of the seeded rows
C15_Witness ==
    /\ pc = "done"
    /\ Len(revisions) = 3
    /\ working_entries # {}
    /\ working_entries # Seeded
    /\ Seeded # dir_entries

\* C16 (staging tables): after every completed phase step no id is in both
\* working_entries and touched_entries, every row of touched_entries is a
\* seeded previous-revision row, and the previous row of every pair the phase
\* matched is in touched_entries.
C16_StagingTables ==
    /\ pc \in {"renamed", "moved", "added"} =>
         /\ Ids(working_entries) \cap Ids(touched_entries) = {}
         /\ touched_entries \subseteq SeededPrev
    /\ pc = "renamed" => {p[1] : p \in matched.unchanged} \subseteq Ids(touched_entries)
    /\ pc = "moved" => {p[1] : p \in matched.renamed} \subseteq Ids(touched_entries)
    /\ pc = "added" => {p[1] : p \in matched.moved} \subseteq Ids(touched_entries)

====
